---- MODULE Spec2Model ----
(***************************************************************************)
(* Model of the multi-branch pipeline demo: the Jenkinsfile helper         *)
(* functions that classify a branch name (both Jenkinsfile variants of the *)
(* repository), a pipeline run of the full Jenkinsfile with its            *)
(* branch-conditional stages, and the places of app.js that derive values  *)
(* from BRANCH_NAME.                                                       *)
(*                                                                         *)
(* Strings are TLA+ strings.  A value that may be absent (Groovy null, an  *)
(* unset environment variable) is a sequence of length 0 or 1: Null is the *)
(* absent value and Some(s) the string s.                                  *)
(***************************************************************************)
EXTENDS Integers, Sequences, FiniteSets, TLC

VARIABLES
    BRANCH_NAME,    \* env.BRANCH_NAME of the run: Null or Some(name)
    BUILD_NUMBER,   \* env.BUILD_NUMBER of the run
    params,         \* the four boolean build parameters
    env,            \* environment variables the Jenkinsfile defines or writes
    pc,             \* the stage the run is at
    pending,        \* parallel child stages of the current stage not yet finished
    childResult,    \* worst result of the finished parallel children: Null is success
    executed,       \* stages whose steps were entered in this run (running or ended)
    completed,      \* stages whose steps ran to their end without an error
    setup,          \* local variables computed by Environment Setup
    log,            \* warnings and messages echoed so far
    description,    \* currentBuild.description
    result,         \* currentBuild.result: Null until a step or the end sets it
    hFile,          \* helper call: the file whose helper is called
    hArg,           \* helper call: the argument (Null or Some(name))
    hFn,            \* helper call: the function called, "" before the call
    hRet,           \* helper call: the outcome of the call
    inputApproved,  \* answer to the input of Production Deploy: Null before it
    hBuild,         \* createDockerTag call: the buildNumber argument
    hPrev,          \* createDockerTag call: the call before this one, or Null
    locale,         \* Locale.getDefault() of the JVM that runs the Jenkinsfile
    srv,            \* app.js server process: its module-level constants
    clock,          \* the time new Date() reads
    response,       \* the response to the last request, Null before the first
    runner,         \* the test script process: position, counter, config, output
    job             \* the branch job in Jenkins: builds started and running

vars == <<BRANCH_NAME, BUILD_NUMBER, params, env, pc, pending, childResult,
          executed, completed, setup, log, description, result,
          hFile, hArg, hFn, hRet, inputApproved, hBuild, hPrev, locale,
          srv, clock, response, runner, job>>

runVars == <<BRANCH_NAME, BUILD_NUMBER, params, env, pc, pending, childResult,
             executed, completed, setup, log, description, result, inputApproved>>

helperVars == <<hFile, hArg, hFn, hRet>>

tagVars == <<hBuild, hPrev, locale>>

serverVars == <<srv, clock, response>>

\* the variables of the processes outside a pipeline run and a helper call
demoVars == <<tagVars, serverVars, runner, job>>

----------------------------------------------------------------------------
(* Bounds of the model *)

\* longest suffix appended to a stem to build a branch name
MaxSuffix == 2

\* largest build number of a run
MaxBuild == 2

\* latest time, in seconds after the epoch, a request arrives at
MaxClock == 2

\* most requests the server handles
MaxRequests == 2

----------------------------------------------------------------------------
(* Optional values and strings *)

Null == <<>>

Some(s) == <<s>>

\* Groovy string interpolation "${v}": null prints as "null"
Interpolate(v) == IF v = Null THEN "null" ELSE v[1]

\* Groovy "v ?: d": d when v is null or the empty string (Groovy truth)
Elvis(v, d) == IF v = Null \/ v = Some("") THEN d ELSE v[1]

\* JavaScript "v || d": d when v is undefined or the empty string
OrDefault(v, d) == IF v = Null \/ v = Some("") THEN d ELSE v[1]

\* String.startsWith
StartsWith(s, p) == Len(s) >= Len(p) /\ SubSeq(s, 1, Len(p)) = p

\* characters branch names are built from
Alphabet == {"x", "A", "/", "_"}

\* the strings over Alphabet of length n
RECURSIVE StringsOfLen(_)
StringsOfLen(n) ==
    IF n = 0 THEN {""}
    ELSE {s \o c : s \in StringsOfLen(n - 1), c \in Alphabet}

Suffixes == UNION {StringsOfLen(n) : n \in 0..MaxSuffix}

Stems == {"", "main", "master", "develop", "feature", "feature/", "hotfix/",
          "release/", "unknown", "feature/experimental"}

\* the branch names of the model
BranchNames == {st \o su : st \in Stems, su \in Suffixes}

\* what env.BRANCH_NAME can hold: unset, or any name (the empty one included)
BranchInputs == {Null} \cup {Some(b) : b \in BranchNames}

\* the names a run of the pipeline is started on: the same stems, followed by
\* name characters and path separators, and names with capital letters
RunAlphabet == {"x", "/"}

RECURSIVE RunStringsOfLen(_)
RunStringsOfLen(n) ==
    IF n = 0 THEN {""}
    ELSE {s \o c : s \in RunStringsOfLen(n - 1), c \in RunAlphabet}

RunSuffixes == UNION {RunStringsOfLen(n) : n \in 0..MaxSuffix}

\* names that differ from a name of the rules in the case of letters only
CapitalNames == {"MAIN", "Master", "Develop", "Feature/x", "Hotfix/x"}

RunBranchInputs == {Null} \cup {Some(st \o su) : st \in Stems, su \in RunSuffixes}
                          \cup {Some(b) : b \in CapitalNames}

----------------------------------------------------------------------------
(* Helper functions of the Jenkinsfile with the "?: 'unknown'" guard.      *)
(* Each takes an optional branch name and returns the value the Groovy     *)
(* function returns.                                                       *)

getBranchAgent(branchName) ==
    LET name == Elvis(branchName, "unknown") IN
    CASE name \in {"main", "master"} -> "production-agent"
      [] name = "develop" -> "staging-agent"
      [] OTHER -> "any"

\* mutant: the hotfix rule is missing
getBranchEnvironment_noHotfix(branchName) ==
    LET name == Elvis(branchName, "unknown") IN
    CASE name \in {"main", "master"} -> "production"
      [] name = "develop" -> "staging"
      [] OTHER -> "development"

getBranchEnvironment(branchName) ==
    LET name == Elvis(branchName, "unknown") IN
    CASE name \in {"main", "master"} -> "production"
      [] name = "develop" -> "staging"
      [] OTHER -> IF StartsWith(name, "feature/") THEN "development"
                  ELSE IF StartsWith(name, "hotfix/") THEN "hotfix"
                  ELSE "development"

shouldDeploy(branchName) ==
    LET name == Elvis(branchName, "unknown") IN
    IF name \in {"develop"} \/ StartsWith(name, "feature/") THEN "true" ELSE "false"

\* mutant: "develop" is matched as a prefix
getBranchTimeout_developPrefix(branchName) ==
    LET name == Elvis(branchName, "unknown") IN
    CASE name \in {"main", "master"} -> 60
      [] StartsWith(name, "develop") -> 45
      [] OTHER -> 30

getBranchTimeout(branchName) ==
    LET name == Elvis(branchName, "unknown") IN
    CASE name \in {"main", "master"} -> 60
      [] name = "develop" -> 45
      [] OTHER -> 30

\* mutant: hotfix branches keep as many builds as develop
getBranchBuildRetention_hotfix20(branchName) ==
    LET name == Elvis(branchName, "unknown") IN
    CASE name \in {"main", "master"} -> "50"
      [] name = "develop" \/ StartsWith(name, "hotfix/") -> "20"
      [] OTHER -> "10"

\* the retention counts are strings in the source ('50', '20', '10')
getBranchBuildRetention(branchName) ==
    LET name == Elvis(branchName, "unknown") IN
    CASE name \in {"main", "master"} -> "50"
      [] name = "develop" -> "20"
      [] OTHER -> "10"

\* mutant: case 'master' is missing
getBranchSlackChannel_noMaster(branchName) ==
    LET name == Elvis(branchName, "unknown") IN
    CASE name = "main" -> "#production-alerts"
      [] name = "develop" -> "#staging-updates"
      [] OTHER -> "#development"

getBranchSlackChannel(branchName) ==
    LET name == Elvis(branchName, "unknown") IN
    CASE name \in {"main", "master"} -> "#production-alerts"
      [] name = "develop" -> "#staging-updates"
      [] OTHER -> "#development"

\* mutant: the release rule is missing
getBranchType_noRelease(branchName) ==
    LET name == Elvis(branchName, "unknown") IN
    IF name \in {"main", "master"} THEN "Production"
    ELSE IF name = "develop" THEN "Staging"
    ELSE IF StartsWith(name, "feature/") THEN "Feature"
    ELSE IF StartsWith(name, "hotfix/") THEN "Hotfix"
    ELSE "Unknown"

getBranchType(branchName) ==
    LET name == Elvis(branchName, "unknown") IN
    IF name \in {"main", "master"} THEN "Production"
    ELSE IF name = "develop" THEN "Staging"
    ELSE IF StartsWith(name, "feature/") THEN "Feature"
    ELSE IF StartsWith(name, "hotfix/") THEN "Hotfix"
    ELSE IF StartsWith(name, "release/") THEN "Release"
    ELSE "Unknown"

validPrefixes == <<"main", "master", "develop", "feature/", "hotfix/", "release/">>

\* the first line validateBranchName echoes for a name it does not accept
NamingWarning(name) ==
    "Warning: Branch name '" \o name \o "' doesn't follow naming conventions"

\* the second line it echoes
ExpectedPrefixes == "Expected prefixes: main, master, develop, feature/, hotfix/, release/"

\* validateBranchName returns nothing; the model gives the lines it echoes
validateBranchName(branchName) ==
    LET name == Elvis(branchName, "unknown")
        isValid == \E i \in 1..Len(validPrefixes) : StartsWith(name, validPrefixes[i])
    IN  IF ~isValid THEN {NamingWarning(name), ExpectedPrefixes} ELSE {}

----------------------------------------------------------------------------
(* Helper functions of the Jenkinsfile variant without the guard.  A call  *)
(* either returns a value or throws: calling a method on null throws       *)
(* NullPointerException.  The outcome is a record; "value" of a call that  *)
(* threw is the name of the exception.                                     *)

Return(v) == [threw |-> FALSE, value |-> v]

NullPointerException == [threw |-> TRUE, value |-> "NullPointerException"]

\* switch (null) matches no case 'x' and no List.contains, so null reaches
\* the first method call on branchName
getBranchAgent_001(branchName) ==
    CASE branchName \in {Some("main"), Some("master")} -> Return("production-agent")
      [] branchName = Some("develop") -> Return("staging-agent")
      [] OTHER -> Return("any")

getBranchEnvironment_001(branchName) ==
    CASE branchName \in {Some("main"), Some("master")} -> Return("production")
      [] branchName = Some("develop") -> Return("staging")
      [] OTHER -> IF branchName = Null THEN NullPointerException
                  ELSE IF StartsWith(branchName[1], "feature/") THEN Return("development")
                  ELSE IF StartsWith(branchName[1], "hotfix/") THEN Return("hotfix")
                  ELSE Return("development")

shouldDeploy_001(branchName) ==
    IF branchName \in {Some("develop")} THEN Return("true")
    ELSE IF branchName = Null THEN NullPointerException
    ELSE IF StartsWith(branchName[1], "feature/") THEN Return("true")
    ELSE Return("false")

getBranchTimeout_001(branchName) ==
    CASE branchName \in {Some("main"), Some("master")} -> Return(60)
      [] branchName = Some("develop") -> Return(45)
      [] OTHER -> Return(30)

getBranchBuildRetention_001(branchName) ==
    CASE branchName \in {Some("main"), Some("master")} -> Return("50")
      [] branchName = Some("develop") -> Return("20")
      [] OTHER -> Return("10")

getBranchSlackChannel_001(branchName) ==
    CASE branchName \in {Some("main"), Some("master")} -> Return("#production-alerts")
      [] branchName = Some("develop") -> Return("#staging-updates")
      [] OTHER -> Return("#development")

getBranchType_001(branchName) ==
    IF branchName \in {Some("main"), Some("master")} THEN Return("Production")
    ELSE IF branchName = Some("develop") THEN Return("Staging")
    ELSE IF branchName = Null THEN NullPointerException
    ELSE IF StartsWith(branchName[1], "feature/") THEN Return("Feature")
    ELSE IF StartsWith(branchName[1], "hotfix/") THEN Return("Hotfix")
    ELSE IF StartsWith(branchName[1], "release/") THEN Return("Release")
    ELSE Return("Unknown")

validateBranchName_001(branchName) ==
    IF branchName = Null THEN NullPointerException
    ELSE LET isValid == \E i \in 1..Len(validPrefixes) :
                            StartsWith(branchName[1], validPrefixes[i])
         IN  Return(IF ~isValid THEN {NamingWarning(branchName[1]), ExpectedPrefixes} ELSE {})

----------------------------------------------------------------------------
(* app.js: the server reads BRANCH_NAME once and derives its environment   *)

\* const branchName = process.env.BRANCH_NAME || 'unknown'
branchName_app(envBranch) == OrDefault(envBranch, "unknown")

getBranchEnvironment_app(branch) ==
    IF branch = "main" \/ branch = "master" THEN "production"
    ELSE IF branch = "develop" THEN "staging"
    ELSE IF StartsWith(branch, "feature/") THEN "development"
    ELSE IF StartsWith(branch, "hotfix/") THEN "hotfix"
    ELSE "unknown"

----------------------------------------------------------------------------
(* createDockerTag *)

UpperCase == "ABCDEFGHIJKLMNOPQRSTUVWXYZ"

LowerCase == "abcdefghijklmnopqrstuvwxyz"

Digits == "0123456789"

\* the characters of a string, as one-character strings
CharsOf(s) == {SubSeq(s, i, i) : i \in 1..Len(s)}

\* the character class [a-zA-Z0-9.-]
TagChars == CharsOf(LowerCase) \cup CharsOf(UpperCase) \cup CharsOf(Digits) \cup {".", "-"}

\* the default locales of the JVM: one with the lower-casing of English, and
\* Turkish, where the lowercase of "I" is the dotless i
Locales == {"en", "tr"}

\* LATIN SMALL LETTER DOTLESS I (U+0131), which is outside ASCII, written
\* here as a character that no name and no tag of the model holds otherwise
DotlessI == "|"

\* String.toLowerCase() on one character: it uses Locale.getDefault()
LowerChar(c) ==
    IF c = "I" /\ locale = "tr" THEN DotlessI
    ELSE IF c \in CharsOf(UpperCase)
    THEN LET i == CHOOSE k \in 1..Len(UpperCase) : SubSeq(UpperCase, k, k) = c
         IN  SubSeq(LowerCase, i, i)
    ELSE c

RECURSIVE toLowerCase(_)
toLowerCase(s) ==
    IF s = "" THEN ""
    ELSE LowerChar(SubSeq(s, 1, 1)) \o toLowerCase(SubSeq(s, 2, Len(s)))

\* the replacement of one character by replaceAll('[^a-zA-Z0-9.-]', '-')
ReplaceChar(c) == IF c \in TagChars THEN c ELSE "-"

\* s.replaceAll('[^a-zA-Z0-9.-]', '-')
RECURSIVE ReplaceDisallowed(_)
ReplaceDisallowed(s) ==
    IF s = "" THEN ""
    ELSE ReplaceChar(SubSeq(s, 1, 1)) \o ReplaceDisallowed(SubSeq(s, 2, Len(s)))

createDockerTag(branchName, buildNumber) ==
    LET name == Elvis(branchName, "unknown")
        cleanBranch == toLowerCase(ReplaceDisallowed(name))
    IN  cleanBranch \o "-" \o Interpolate(buildNumber)

\* decimal digits of a natural number
RECURSIVE NatToString(_)
NatToString(n) ==
    IF n < 10 THEN SubSeq(Digits, n + 1, n + 1)
    ELSE NatToString(n \div 10) \o SubSeq(Digits, (n % 10) + 1, (n % 10) + 1)

\* the build numbers of the model, as Jenkins puts them in env.BUILD_NUMBER
BuildNumbers == {Some(NatToString(n)) : n \in 1..MaxBuild}

\* the branch names createDockerTag is called with
TagStems == {"", "feature", "feature/", "unknown"}

\* what follows a stem: an uppercase letter whose lowercase depends on the
\* locale, the path separator and a character outside the allowed set
TagAlphabet == {"I", "/", "_"}

RECURSIVE TagStringsOfLen(_)
TagStringsOfLen(n) ==
    IF n = 0 THEN {""}
    ELSE {s \o c : s \in TagStringsOfLen(n - 1), c \in TagAlphabet}

TagSuffixes == UNION {TagStringsOfLen(n) : n \in 0..MaxSuffix}

TagNames == {st \o su : st \in TagStems, su \in TagSuffixes}
            \cup {"feature/My_Branch!", "feature/a", "feature/A", "feature_A",
                  "FEATURE/A", "release/2.0", "feature/i", "MAIN", "xA", "x_"}

TagInputs == {Null} \cup {Some(b) : b \in TagNames}

\* the build numbers createDockerTag is called with
TagBuildNumbers == BuildNumbers \cup {Some("42")}

----------------------------------------------------------------------------
(* Declarative "when" conditions *)

\* the segments of a path between "/" separators, empty segments dropped
RECURSIVE Tokens(_, _)
Tokens(s, cur) ==
    IF s = "" THEN (IF cur = "" THEN <<>> ELSE <<cur>>)
    ELSE IF SubSeq(s, 1, 1) = "/"
         THEN (IF cur = "" THEN <<>> ELSE <<cur>>) \o Tokens(SubSeq(s, 2, Len(s)), "")
         ELSE Tokens(SubSeq(s, 2, Len(s)), cur \o SubSeq(s, 1, 1))

\* Character.toLowerCase on one character of a name: it reads no locale
FoldChar(c) ==
    IF c \in CharsOf(UpperCase)
    THEN LET i == CHOOSE k \in 1..Len(UpperCase) : SubSeq(UpperCase, k, k) = c
         IN  SubSeq(LowerCase, i, i)
    ELSE c

\* a string with the case of its letters folded
RECURSIVE FoldCase(_)
FoldCase(s) ==
    IF s = "" THEN ""
    ELSE FoldChar(SubSeq(s, 1, 1)) \o FoldCase(SubSeq(s, 2, Len(s)))

\* "branch '<pattern>'": the pattern is an Ant-style path glob matched
\* segment by segment against env.BRANCH_NAME, ignoring the case of letters
\* (the matcher is called with isCaseSensitive = false); a "*" segment
\* matches exactly one segment, whatever it holds.  An unset BRANCH_NAME
\* matches nothing.  (The patterns of the Jenkinsfile hold no "**" and no
\* "*" inside a segment.)
BranchMatches(pattern, actualBranch) ==
    IF actualBranch = Null \/ actualBranch = Some("") THEN FALSE
    ELSE LET pt == Tokens(pattern, "")
             bt == Tokens(actualBranch[1], "")
         IN  /\ StartsWith(actualBranch[1], "/") = StartsWith(pattern, "/")
             /\ Len(pt) = Len(bt)
             /\ \A i \in 1..Len(pt) :
                    pt[i] = "*" \/ FoldCase(pt[i]) = FoldCase(bt[i])

\* when of stage('Integration Tests')
IntegrationTestsWhen ==
    ~(BranchMatches("feature/*", BRANCH_NAME) /\ params.SKIP_INTEGRATION_TESTS = TRUE)

\* when of stage('Performance Tests')
PerformanceTestsWhen ==
    \/ BranchMatches("main", BRANCH_NAME)
    \/ BranchMatches("master", BRANCH_NAME)
    \/ params.RUN_PERFORMANCE_TESTS = TRUE

\* a gate without develop
DockerBuildWhen_noDevelop ==
    \/ BranchMatches("main", BRANCH_NAME)
    \/ BranchMatches("master", BRANCH_NAME)
    \/ BranchMatches("feature/*", BRANCH_NAME)

\* when of stage('Docker Build')
DockerBuildWhen ==
    \/ BranchMatches("main", BRANCH_NAME)
    \/ BranchMatches("master", BRANCH_NAME)
    \/ BranchMatches("develop", BRANCH_NAME)
    \/ BranchMatches("feature/*", BRANCH_NAME)

\* when of stage('Auto Deploy')
AutoDeployWhen ==
    /\ env.DEPLOY_ENABLED = Some("true")
    /\ \/ BranchMatches("develop", BRANCH_NAME)
       \/ /\ BranchMatches("feature/*", BRANCH_NAME)
          /\ BRANCH_NAME # Some("feature/experimental")

\* when of stage('Production Deploy')
ProductionDeployWhen ==
    /\ \/ BranchMatches("main", BRANCH_NAME)
       \/ BranchMatches("master", BRANCH_NAME)
    /\ params.DEPLOY_TO_PRODUCTION = TRUE

----------------------------------------------------------------------------
(* A run of the pipeline *)

\* options { ... } of the pipeline: the same literals for every branch, and no
\* disableConcurrentBuilds()
options ==
    [timeout |-> 45, numToKeepStr |-> "10", timestamps |-> TRUE,
     skipDefaultCheckout |-> TRUE, disableConcurrentBuilds |-> FALSE]

ParamSets == [DEPLOY_TO_PRODUCTION : BOOLEAN, RUN_PERFORMANCE_TESTS : BOOLEAN,
              SKIP_INTEGRATION_TESTS : BOOLEAN, ENABLE_DEBUG_MODE : BOOLEAN]

APP_NAME == "multi-branch-demo"

\* stages { ... } in their declared order
StageOrder == <<"Environment Setup", "Checkout & Validate", "Build Application",
                "Test Suite", "Quality Gates", "Docker Build", "Deploy">>

\* parallel { ... } children of a stage
Children(stage) ==
    CASE stage = "Test Suite" -> {"Unit Tests", "Integration Tests", "Performance Tests"}
      [] stage = "Quality Gates" -> {"Security Scan", "Code Quality"}
      [] stage = "Deploy" -> {"Auto Deploy", "Production Deploy"}
      [] OTHER -> {}

\* the stage after a stage; the post section follows the last one
NextStage(stage) ==
    LET i == CHOOSE k \in 1..Len(StageOrder) : StageOrder[k] = stage
    IN  IF i = Len(StageOrder) THEN "post" ELSE StageOrder[i + 1]

\* the worse of two results, in the order of Jenkins' results: ABORTED is
\* worse than FAILURE, which is worse than UNSTABLE, which is worse than
\* success (Null)
Worse(r1, r2) ==
    IF r1 = Some("ABORTED") \/ r2 = Some("ABORTED") THEN Some("ABORTED")
    ELSE IF r1 = Some("FAILURE") \/ r2 = Some("FAILURE") THEN Some("FAILURE")
    ELSE IF r1 = Some("UNSTABLE") \/ r2 = Some("UNSTABLE") THEN Some("UNSTABLE")
    ELSE Null

NoLocals == [branchTimeout |-> 0, buildRetention |-> "", branchType |-> ""]

\* what Docker accepts as the tag of an image reference
ValidImageTag(t) ==
    /\ Len(t) \in 1..128
    /\ CharsOf(t) \subseteq (TagChars \cup {"_"})
    /\ SubSeq(t, 1, 1) \notin {".", "-"}

\* what Docker accepts as a container name
ValidContainerName(n) ==
    /\ Len(n) >= 2
    /\ CharsOf(n) \subseteq (TagChars \cup {"_"})
    /\ SubSeq(n, 1, 1) \notin {".", "-", "_"}

\* no createDockerTag call
TagIdle ==
    /\ hBuild = Null
    /\ hPrev = Null

\* no server process
ServerIdle ==
    /\ srv = [state |-> "off", branchName |-> "", buildNumber |-> "",
              environment |-> "", served |-> 0]
    /\ clock = 0
    /\ response = Null

\* no test script process
RunnerIdle ==
    runner = [pc |-> "off", branchName |-> "", i |-> 0, config |-> "", out |-> <<>>]

\* no build of the branch job
JobIdle == job = [started |-> 0, running |-> {}]

\* no createDockerTag call, no server, no test script, no job
DemoIdle == TagIdle /\ ServerIdle /\ RunnerIdle /\ JobIdle

\* no helper call
HelperIdle ==
    /\ hFile = ""
    /\ hArg = Null
    /\ hFn = ""
    /\ hRet = Return("")

\* no pipeline run
RunIdle ==
    /\ params = [DEPLOY_TO_PRODUCTION |-> FALSE, RUN_PERFORMANCE_TESTS |-> TRUE,
                 SKIP_INTEGRATION_TESTS |-> FALSE, ENABLE_DEBUG_MODE |-> FALSE]
    /\ env = [TARGET_ENVIRONMENT |-> Null, DEPLOY_ENABLED |-> Null,
              SLACK_CHANNEL |-> Null, DOCKER_TAG |-> Null]
    /\ pc = "idle"
    /\ pending = {}
    /\ childResult = Null
    /\ executed = {}
    /\ completed = {}
    /\ setup = NoLocals
    /\ log = {}
    /\ description = Null
    /\ result = Null
    /\ inputApproved = Null

Init ==
    /\ BRANCH_NAME \in RunBranchInputs
    /\ BUILD_NUMBER \in BuildNumbers
    /\ params \in ParamSets
    /\ env = [TARGET_ENVIRONMENT |-> Null, DEPLOY_ENABLED |-> Null,
              SLACK_CHANNEL |-> Null, DOCKER_TAG |-> Null]
    /\ pc = "start"
    /\ pending = {}
    /\ childResult = Null
    /\ executed = {}
    /\ completed = {}
    /\ setup = NoLocals
    /\ log = {}
    /\ description = Null
    /\ result = Null
    /\ inputApproved = Null
    /\ hFile = ""
    /\ hArg = Null
    /\ hFn = ""
    /\ hRet = Return("")
    /\ DemoIdle
    /\ locale \in Locales

\* the run enters the next stage
GoTo(next) ==
    /\ pc' = next
    /\ pending' = Children(next)
    /\ childResult' = Null

\* a step of the current stage threw: the remaining stages are skipped
Fail(stage, res) ==
    /\ pc' = "post"
    /\ pending' = {}
    /\ childResult' = Null
    /\ result' = Some(res)
    /\ executed' = executed \cup {stage}
    /\ completed' = completed

\* the steps of a sequential stage ran to their end
Pass(stage) ==
    /\ GoTo(NextStage(stage))
    /\ result' = result
    /\ executed' = executed \cup {stage}
    /\ completed' = completed \cup {stage}

\* a sequential stage whose when is false is skipped
Skip(stage) ==
    /\ GoTo(NextStage(stage))
    /\ UNCHANGED <<result, executed, completed>>

\* a child of a parallel stage finished: ran tells whether its steps were
\* entered, res is Null when it ended without error, mark is a result a step
\* set on the build without throwing.  The parallel stage ends with its last
\* child; it fails when a child did.
FinishChildMarked(child, ran, res, mark) ==
    LET remaining == pending \ {child}
        worst == Worse(childResult, res)
        marked == Worse(result, mark)
    IN  /\ executed' = IF ran THEN executed \cup {child} ELSE executed
        /\ IF remaining # {}
           THEN /\ pending' = remaining
                /\ childResult' = worst
                /\ completed' = IF ran /\ res = Null THEN completed \cup {child}
                                ELSE completed
                /\ result' = marked
                /\ UNCHANGED pc
           ELSE IF worst = Null
           THEN /\ GoTo(NextStage(pc))
                /\ completed' = (IF ran THEN completed \cup {child} ELSE completed)
                                \cup {pc}
                /\ result' = marked
           ELSE /\ pc' = "post"
                /\ pending' = {}
                /\ childResult' = Null
                /\ result' = Worse(marked, worst)
                /\ completed' = IF ran /\ res = Null THEN completed \cup {child}
                                ELSE completed

\* a child that set no result on the build finished
FinishChild(child, ran, res) == FinishChildMarked(child, ran, res, Null)

\* the when of a child holds, or it has none: its steps are entered and it
\* runs beside its siblings until it finishes
EnterChild(child) ==
    /\ executed' = executed \cup {child}
    /\ UNCHANGED <<pc, pending, childResult, completed, result>>

\* a child of the current stage that has not been started
NotStarted(stage, child) ==
    /\ pc = stage
    /\ child \in pending
    /\ child \notin executed

\* a child of the current stage whose steps are running
Running(stage, child) ==
    /\ pc = stage
    /\ child \in pending
    /\ child \in executed

\* environment { ... }: evaluated once when the run starts
StartRun ==
    /\ pc = "start"
    /\ env' = [env EXCEPT !.TARGET_ENVIRONMENT = Some(getBranchEnvironment(BRANCH_NAME)),
                          !.DEPLOY_ENABLED = Some(shouldDeploy(BRANCH_NAME)),
                          !.SLACK_CHANNEL = Some(getBranchSlackChannel(BRANCH_NAME))]
    /\ GoTo(StageOrder[1])
    /\ UNCHANGED <<BRANCH_NAME, BUILD_NUMBER, params, executed, completed, setup,
                   log, description, result>>
    /\ UNCHANGED <<inputApproved, helperVars, demoVars>>

\* lines the parameter validation of Environment Setup echoes
ParameterWarnings(upTo) ==
    (IF params.DEPLOY_TO_PRODUCTION /\ BRANCH_NAME \notin {Some("main"), Some("master")}
     THEN {"Warning: DEPLOY_TO_PRODUCTION is only recommended for main/master branches"}
     ELSE {})
    \cup
    (IF upTo >= 2 /\ params.RUN_PERFORMANCE_TESTS /\ StartsWith(BRANCH_NAME[1], "feature/")
     THEN {"Info: Performance tests enabled for feature branch (may increase build time)"}
     ELSE {})
    \cup
    (IF upTo >= 3 /\ params.SKIP_INTEGRATION_TESTS
                  /\ BRANCH_NAME \in {Some("main"), Some("master")}
     THEN {"Warning: Skipping integration tests is not recommended for production branches"}
     ELSE {})

\* mutant: a name validateBranchName warns about fails the stage
EnvironmentSetup_rejects(checkoutOk) ==
    /\ pc = "Environment Setup"
    /\ "Environment Setup" \notin executed
    /\ IF ~checkoutOk \/ (params.RUN_PERFORMANCE_TESTS /\ BRANCH_NAME = Null)
       THEN /\ Fail("Environment Setup", "FAILURE")
            /\ UNCHANGED <<setup, log, description>>
       ELSE /\ setup' = [branchTimeout |-> getBranchTimeout(BRANCH_NAME),
                         buildRetention |-> getBranchBuildRetention(BRANCH_NAME),
                         branchType |-> getBranchType(BRANCH_NAME)]
            /\ description' = Some(getBranchType(BRANCH_NAME) \o " build for "
                                     \o Interpolate(BRANCH_NAME))
            /\ log' = log \cup ParameterWarnings(3) \cup validateBranchName(BRANCH_NAME)
                          \cup (IF params.ENABLE_DEBUG_MODE
                                THEN {"DEBUG MODE ENABLED"} ELSE {})
            /\ IF validateBranchName(BRANCH_NAME) # {}
               THEN Fail("Environment Setup", "FAILURE")
               ELSE Pass("Environment Setup")
    /\ UNCHANGED <<BRANCH_NAME, BUILD_NUMBER, params, env>>
    /\ UNCHANGED <<inputApproved, helperVars, demoVars>>

\* stage('Environment Setup') up to the first sh of its debug branch.
\* checkoutOk: "checkout scm" succeeded.  With ENABLE_DEBUG_MODE the stage
\* has written its variables and echoed its lines and then waits in the sh;
\* without it the stage ends here.
EnvironmentSetup(checkoutOk) ==
    /\ pc = "Environment Setup"
    /\ "Environment Setup" \notin executed
    /\ IF ~checkoutOk
       THEN /\ Fail("Environment Setup", "FAILURE")
            /\ UNCHANGED <<setup, log, description>>
       ELSE LET branchTimeout == getBranchTimeout(BRANCH_NAME)
                buildRetention == getBranchBuildRetention(BRANCH_NAME)
                isProd == BRANCH_NAME = Some("main") \/ BRANCH_NAME = Some("master")
                prodDescription == "PRODUCTION: " \o Interpolate(BRANCH_NAME)
                                     \o " #" \o Interpolate(BUILD_NUMBER)
                branchType == getBranchType(BRANCH_NAME)
            IN  IF params.RUN_PERFORMANCE_TESTS /\ BRANCH_NAME = Null
                THEN \* env.BRANCH_NAME.startsWith on null throws
                     /\ Fail("Environment Setup", "FAILURE")
                     /\ setup' = [setup EXCEPT !.branchTimeout = branchTimeout,
                                               !.buildRetention = buildRetention]
                     /\ log' = log \cup ParameterWarnings(1)
                     /\ description' = IF isProd THEN Some(prodDescription) ELSE description
                ELSE /\ IF params.ENABLE_DEBUG_MODE
                        THEN EnterChild("Environment Setup")
                        ELSE Pass("Environment Setup")
                     /\ setup' = [branchTimeout |-> branchTimeout,
                                  buildRetention |-> buildRetention,
                                  branchType |-> branchType]
                     /\ description' = Some(branchType \o " build for "
                                              \o Interpolate(BRANCH_NAME))
                     /\ log' = log \cup ParameterWarnings(3)
                                   \cup validateBranchName(BRANCH_NAME)
                                   \cup (IF params.ENABLE_DEBUG_MODE
                                         THEN {"DEBUG MODE ENABLED"} ELSE {})
    /\ UNCHANGED <<BRANCH_NAME, BUILD_NUMBER, params, env>>
    /\ UNCHANGED <<inputApproved, helperVars, demoVars>>

\* stage('Environment Setup'), the two sh of its debug branch: they print
\* git and environment information and end the stage
EnvironmentSetupDebug ==
    /\ pc = "Environment Setup"
    /\ "Environment Setup" \in executed
    /\ Pass("Environment Setup")
    /\ UNCHANGED <<BRANCH_NAME, BUILD_NUMBER, params, env, setup, log, description>>
    /\ UNCHANGED <<inputApproved, helperVars, demoVars>>

\* stage('Checkout & Validate'): echoes, and a sh that prints git information
CheckoutValidate ==
    /\ pc = "Checkout & Validate"
    /\ Pass("Checkout & Validate")
    /\ UNCHANGED <<BRANCH_NAME, BUILD_NUMBER, params, env, setup, log, description>>
    /\ UNCHANGED <<inputApproved, helperVars, demoVars>>

\* the build process stage('Build Application') announces
BuildProcess(branch) ==
    CASE branch \in {Some("main"), Some("master")} -> "Production Build Process"
      [] branch = Some("develop") -> "Staging Build Process"
      [] OTHER -> IF StartsWith(branch[1], "feature/") THEN "Feature Branch Build Process"
                  ELSE IF StartsWith(branch[1], "hotfix/") THEN "Hotfix Branch Build Process"
                  ELSE "Standard Build Process"

\* stage('Build Application').  npmOk: npm install and npm run build succeeded.
BuildApplication(npmOk) ==
    /\ pc = "Build Application"
    /\ IF BRANCH_NAME = Null
       THEN \* the default case calls env.BRANCH_NAME.startsWith on null
            /\ Fail("Build Application", "FAILURE")
            /\ log' = log
       ELSE /\ log' = log \cup {BuildProcess(BRANCH_NAME)}
            /\ IF npmOk THEN Pass("Build Application")
               ELSE Fail("Build Application", "FAILURE")
    /\ UNCHANGED <<BRANCH_NAME, BUILD_NUMBER, params, env, setup, description>>
    /\ UNCHANGED <<inputApproved, helperVars, demoVars>>

unchangedByTests == <<BRANCH_NAME, BUILD_NUMBER, params, env, setup, log, description>>

\* stage('Unit Tests') starts: it has no when
StartUnitTests ==
    /\ NotStarted("Test Suite", "Unit Tests")
    /\ EnterChild("Unit Tests")
    /\ UNCHANGED unchangedByTests
    /\ UNCHANGED <<inputApproved, helperVars, demoVars>>

\* what the post of Unit Tests finds: no test-results.xml, a report without
\* failed tests, a report with failed tests (junit marks the build UNSTABLE),
\* or a file junit cannot read (junit throws)
JunitOutcomes == {"absent", "passed", "unstable", "error"}

\* stage('Unit Tests') ends.  testOk: npm test succeeded; junit: what its
\* post { always } finds, whatever the outcome of the steps.
UnitTests(testOk, junit) ==
    /\ Running("Test Suite", "Unit Tests")
    /\ FinishChildMarked("Unit Tests", TRUE,
                         IF testOk /\ junit # "error" THEN Null ELSE Some("FAILURE"),
                         IF junit = "unstable" THEN Some("UNSTABLE") ELSE Null)
    /\ UNCHANGED unchangedByTests
    /\ UNCHANGED <<inputApproved, helperVars, demoVars>>

\* stage('Integration Tests') starts: its when is checked, its steps are
\* entered or the stage is skipped
StartIntegrationTests ==
    /\ NotStarted("Test Suite", "Integration Tests")
    /\ IF IntegrationTestsWhen
       THEN EnterChild("Integration Tests")
       ELSE FinishChild("Integration Tests", FALSE, Null)
    /\ UNCHANGED unchangedByTests
    /\ UNCHANGED <<inputApproved, helperVars, demoVars>>

\* stage('Integration Tests') ends.  testOk: node tests/app.test.js succeeded.
IntegrationTests(testOk) ==
    /\ Running("Test Suite", "Integration Tests")
    /\ FinishChild("Integration Tests", TRUE, IF testOk THEN Null ELSE Some("FAILURE"))
    /\ UNCHANGED unchangedByTests
    /\ UNCHANGED <<inputApproved, helperVars, demoVars>>

\* stage('Performance Tests') starts: its when is checked
StartPerformanceTests ==
    /\ NotStarted("Test Suite", "Performance Tests")
    /\ IF PerformanceTestsWhen
       THEN EnterChild("Performance Tests")
       ELSE FinishChild("Performance Tests", FALSE, Null)
    /\ UNCHANGED unchangedByTests
    /\ UNCHANGED <<inputApproved, helperVars, demoVars>>

\* stage('Performance Tests') ends: its sh echoes only
PerformanceTests ==
    /\ Running("Test Suite", "Performance Tests")
    /\ FinishChild("Performance Tests", TRUE, Null)
    /\ UNCHANGED unchangedByTests
    /\ UNCHANGED <<inputApproved, helperVars, demoVars>>

\* stage('Security Scan') starts: it has no when
StartSecurityScan ==
    /\ NotStarted("Quality Gates", "Security Scan")
    /\ EnterChild("Security Scan")
    /\ UNCHANGED unchangedByTests
    /\ UNCHANGED <<inputApproved, helperVars, demoVars>>

\* stage('Security Scan') ends: its sh echoes only
SecurityScan ==
    /\ Running("Quality Gates", "Security Scan")
    /\ FinishChild("Security Scan", TRUE, Null)
    /\ UNCHANGED unchangedByTests
    /\ UNCHANGED <<inputApproved, helperVars, demoVars>>

\* stage('Code Quality') starts: it has no when; it echoes the quality gate
\* level before its sh
StartCodeQuality ==
    /\ NotStarted("Quality Gates", "Code Quality")
    /\ EnterChild("Code Quality")
    /\ log' = log \cup {"Quality gate level: " \o
                        (IF BRANCH_NAME \in {Some("main"), Some("master")}
                         THEN "strict" ELSE "standard")}
    /\ UNCHANGED <<BRANCH_NAME, BUILD_NUMBER, params, env, setup, description>>
    /\ UNCHANGED <<inputApproved, helperVars, demoVars>>

\* mutant: the stage points the notifications at another channel
CodeQuality_setsChannel ==
    /\ Running("Quality Gates", "Code Quality")
    /\ FinishChild("Code Quality", TRUE, Null)
    /\ env' = [env EXCEPT !.SLACK_CHANNEL = Some("#quality")]
    /\ UNCHANGED <<BRANCH_NAME, BUILD_NUMBER, params, setup, log, description>>
    /\ UNCHANGED <<inputApproved, helperVars, demoVars>>

\* stage('Code Quality') ends: its sh echoes only
CodeQuality ==
    /\ Running("Quality Gates", "Code Quality")
    /\ FinishChild("Code Quality", TRUE, Null)
    /\ UNCHANGED unchangedByTests
    /\ UNCHANGED <<inputApproved, helperVars, demoVars>>

\* the second tag of the image: ${env.BRANCH_NAME}-latest
LatestTag == Interpolate(BRANCH_NAME) \o "-latest"

\* the name of the container: ${env.APP_NAME}-${env.BRANCH_NAME}
ContainerName == APP_NAME \o "-" \o Interpolate(BRANCH_NAME)

\* stage('Docker Build').  dockerOk: docker build and docker tag succeeded;
\* docker tag rejects "<branch>-latest" when it is no valid tag.
DockerBuild(dockerOk) ==
    /\ pc = "Docker Build"
    /\ IF ~DockerBuildWhen
       THEN /\ Skip("Docker Build")
            /\ env' = env
       ELSE LET dockerTag == createDockerTag(BRANCH_NAME, BUILD_NUMBER)
                latest == LatestTag
            IN  IF dockerOk /\ ValidImageTag(dockerTag) /\ ValidImageTag(latest)
                THEN /\ Pass("Docker Build")
                     /\ env' = [env EXCEPT !.DOCKER_TAG = Some(dockerTag)]
                ELSE /\ Fail("Docker Build", "FAILURE")
                     /\ env' = env
    /\ UNCHANGED <<BRANCH_NAME, BUILD_NUMBER, params, setup, log, description>>
    /\ UNCHANGED <<inputApproved, helperVars, demoVars>>

\* stage('Auto Deploy') starts: its when is checked
StartAutoDeploy ==
    /\ NotStarted("Deploy", "Auto Deploy")
    /\ IF AutoDeployWhen
       THEN EnterChild("Auto Deploy")
       ELSE FinishChild("Auto Deploy", FALSE, Null)
    /\ UNCHANGED unchangedByTests
    /\ UNCHANGED <<inputApproved, helperVars, demoVars>>

\* stage('Auto Deploy') ends.  dockerOk: docker run succeeded; it rejects a
\* container name or an image tag that is not valid.
AutoDeploy(dockerOk) ==
    /\ Running("Deploy", "Auto Deploy")
    /\ LET name == ContainerName
           tag == Interpolate(env.DOCKER_TAG)
           ran == dockerOk /\ ValidContainerName(name) /\ ValidImageTag(tag)
       IN  FinishChild("Auto Deploy", TRUE, IF ran THEN Null ELSE Some("FAILURE"))
    /\ UNCHANGED unchangedByTests
    /\ UNCHANGED <<inputApproved, helperVars, demoVars>>

\* stage('Production Deploy'), its input: the input step comes before the
\* when of the stage (no beforeInput), so every run stops here.  approved:
\* the submitter chose "Deploy" rather than abort.
ProductionDeployInput(approved) ==
    /\ NotStarted("Deploy", "Production Deploy")
    /\ inputApproved = Null
    /\ IF approved
       THEN /\ inputApproved' = Some("approved")
            /\ UNCHANGED <<pc, pending, childResult, executed, completed, result>>
       ELSE /\ inputApproved' = Some("aborted")
            /\ FinishChild("Production Deploy", FALSE, Some("ABORTED"))
    /\ UNCHANGED <<BRANCH_NAME, BUILD_NUMBER, params, env, setup, log, description>>
    /\ UNCHANGED <<helperVars, demoVars>>

\* stage('Production Deploy') starts after the input was approved: its when
\* is checked; the steps echo their first line and then read RELEASE_VERSION,
\* a string parameter of the input without a default.  versionGiven: the
\* submitter filled it in; left empty, the variable is not defined and the
\* echo of line 468 throws before the sh.
StartProductionDeploy(versionGiven) ==
    /\ NotStarted("Deploy", "Production Deploy")
    /\ inputApproved = Some("approved")
    /\ IF ProductionDeployWhen
       THEN /\ IF versionGiven
               THEN EnterChild("Production Deploy")
               ELSE FinishChild("Production Deploy", TRUE, Some("FAILURE"))
            /\ log' = log \cup {"Production Deployment Initiated"}
       ELSE /\ FinishChild("Production Deploy", FALSE, Null)
            /\ log' = log
    /\ UNCHANGED <<BRANCH_NAME, BUILD_NUMBER, params, env, setup, description>>
    /\ UNCHANGED <<inputApproved, helperVars, demoVars>>

\* stage('Production Deploy') ends: its sh echoes only
ProductionDeploy ==
    /\ Running("Deploy", "Production Deploy")
    /\ FinishChild("Production Deploy", TRUE, Null)
    /\ UNCHANGED unchangedByTests
    /\ UNCHANGED <<inputApproved, helperVars, demoVars>>

\* the run is interrupted while post { always } waits in archiveArtifacts or
\* in its sh: it ends ABORTED, and no success, failure or unstable block runs
PostInterrupted ==
    /\ pc = "post"
    /\ pc' = "done"
    /\ result' = Some("ABORTED")
    /\ UNCHANGED <<BRANCH_NAME, BUILD_NUMBER, params, env, pending, childResult,
                   executed, completed, setup, log, description>>
    /\ UNCHANGED <<inputApproved, helperVars, demoVars>>

\* the run is interrupted in the step of a stage it waits in.  A parallel
\* stage waits in the sh of a running child or in the input of Production
\* Deploy, and its children are all interrupted; a sequential stage was
\* entered when its steps run at all (Docker Build has a when; Build
\* Application throws before its sh when BRANCH_NAME is unset) and has
\* written and echoed what comes before the sh it waits in.
StageInterrupted ==
    /\ pc \in {StageOrder[k] : k \in 1..Len(StageOrder)}
    /\ Children(pc) # {} =>
          \/ pending \cap executed # {}
          \/ ("Production Deploy" \in pending /\ inputApproved = Null)
    /\ pc = "Docker Build" => DockerBuildWhen
    /\ pc = "Build Application" => BRANCH_NAME # Null
    /\ pc' = "post"
    /\ pending' = {}
    /\ childResult' = Null
    /\ result' = Some("ABORTED")
    /\ executed' = IF Children(pc) = {} THEN executed \cup {pc} ELSE executed
    /\ log' = IF pc = "Build Application" THEN log \cup {BuildProcess(BRANCH_NAME)}
              ELSE log
    /\ UNCHANGED <<BRANCH_NAME, BUILD_NUMBER, params, env, completed, setup,
                   description>>
    /\ UNCHANGED <<inputApproved, helperVars, demoVars>>

\* the timeout of options, which spans the stages and post, or a user ends
\* the run as ABORTED wherever it waits
Abort ==
    \/ StageInterrupted
    \/ PostInterrupted

\* the lines the success, failure and unstable blocks of post echo: the line
\* that names the branch, then the line of the switch
PostLines(res) ==
    CASE res = Null ->
            {"Pipeline Success for " \o Interpolate(BRANCH_NAME)} \cup
            (IF BRANCH_NAME \in {Some("main"), Some("master")}
             THEN {"Production branch build successful!"}
             ELSE IF BRANCH_NAME = Some("develop")
             THEN {"Staging branch build successful!"}
             ELSE IF BRANCH_NAME # Null /\ StartsWith(BRANCH_NAME[1], "feature/")
             THEN {"Feature branch build successful!"}
             ELSE {})
      [] res = Some("FAILURE") ->
            {"Pipeline Failed for " \o Interpolate(BRANCH_NAME)} \cup
            (IF BRANCH_NAME \in {Some("main"), Some("master")}
             THEN {"CRITICAL: Production branch failure!"}
             ELSE {"Development branch failure - developer notified"})
      [] res = Some("UNSTABLE") ->
            {"Pipeline Unstable for " \o Interpolate(BRANCH_NAME)
                \o " - Tests failed but build succeeded"}
      [] OTHER -> {}

\* how the steps of post { always } end: they succeed, one of them throws, or
\* the run is interrupted while they wait
PostOutcomes == {"ok", "error", "interrupted"}

\* post { always, success, failure, unstable }.  always: how the steps of the
\* always block end; when they throw the build becomes a FAILURE, unless it
\* is ABORTED, before the other blocks are chosen.  The success block echoes
\* its first line, then calls env.BRANCH_NAME.startsWith in the default case
\* of its switch and throws on an unset name, after the failure block had
\* its turn.
Post(always) ==
    IF always = "interrupted" THEN PostInterrupted
    ELSE
    /\ pc = "post"
    /\ pc' = "done"
    /\ LET res == IF always = "ok" THEN result ELSE Worse(result, Some("FAILURE"))
       IN  /\ result' = IF res = Null
                        THEN (IF BRANCH_NAME = Null THEN Some("FAILURE")
                              ELSE Some("SUCCESS"))
                        ELSE res
           /\ log' = log \cup PostLines(res)
    /\ UNCHANGED <<BRANCH_NAME, BUILD_NUMBER, params, env, pending, childResult,
                   executed, completed, setup, description>>
    /\ UNCHANGED <<inputApproved, helperVars, demoVars>>

Next ==
    \/ StartRun
    \/ \E checkoutOk \in BOOLEAN : EnvironmentSetup(checkoutOk)
    \/ EnvironmentSetupDebug
    \/ CheckoutValidate
    \/ \E npmOk \in BOOLEAN : BuildApplication(npmOk)
    \/ StartUnitTests
    \/ \E testOk \in BOOLEAN, junit \in JunitOutcomes : UnitTests(testOk, junit)
    \/ StartIntegrationTests
    \/ \E testOk \in BOOLEAN : IntegrationTests(testOk)
    \/ StartPerformanceTests
    \/ PerformanceTests
    \/ StartSecurityScan
    \/ SecurityScan
    \/ StartCodeQuality
    \/ CodeQuality
    \/ \E dockerOk \in BOOLEAN : DockerBuild(dockerOk)
    \/ StartAutoDeploy
    \/ \E dockerOk \in BOOLEAN : AutoDeploy(dockerOk)
    \/ \E approved \in BOOLEAN : ProductionDeployInput(approved)
    \/ \E versionGiven \in BOOLEAN : StartProductionDeploy(versionGiven)
    \/ ProductionDeploy
    \/ Abort
    \/ \E always \in PostOutcomes : Post(always)

Spec == Init /\ [][Next]_vars

----------------------------------------------------------------------------
(* Calls of the helper functions, one call per behaviour: the caller picks *)
(* a file and an argument, calls one function and keeps the outcome.       *)

HelperFiles == {"part_000", "part_001", "app.js"}

HelperInit ==
    /\ hFile \in HelperFiles
    /\ hArg \in BranchInputs
    /\ hFn = ""
    /\ hRet = Return("")
    /\ BRANCH_NAME = Null
    /\ BUILD_NUMBER = Null
    /\ params = [DEPLOY_TO_PRODUCTION |-> FALSE, RUN_PERFORMANCE_TESTS |-> TRUE,
                 SKIP_INTEGRATION_TESTS |-> FALSE, ENABLE_DEBUG_MODE |-> FALSE]
    /\ env = [TARGET_ENVIRONMENT |-> Null, DEPLOY_ENABLED |-> Null,
              SLACK_CHANNEL |-> Null, DOCKER_TAG |-> Null]
    /\ pc = "idle"
    /\ pending = {}
    /\ childResult = Null
    /\ executed = {}
    /\ completed = {}
    /\ setup = NoLocals
    /\ log = {}
    /\ description = Null
    /\ result = Null
    /\ inputApproved = Null
    /\ DemoIdle
    /\ locale \in Locales

\* the call of fn returns or throws outcome
Call(fn, outcome) ==
    /\ hFn = ""
    /\ hFn' = fn
    /\ hRet' = outcome
    /\ UNCHANGED <<hFile, hArg>>
    /\ UNCHANGED <<runVars, demoVars>>

CallGetBranchAgent ==
    /\ hFile \in {"part_000", "part_001"}
    /\ Call("getBranchAgent",
            IF hFile = "part_000" THEN Return(getBranchAgent(hArg))
            ELSE getBranchAgent_001(hArg))

\* in app.js the argument is the constant branchName, never absent
CallGetBranchEnvironment ==
    /\ hFile \in HelperFiles
    /\ Call("getBranchEnvironment",
            CASE hFile = "part_000" -> Return(getBranchEnvironment(hArg))
              [] hFile = "part_001" -> getBranchEnvironment_001(hArg)
              [] hFile = "app.js" ->
                   Return(getBranchEnvironment_app(branchName_app(hArg))))

CallShouldDeploy ==
    /\ hFile \in {"part_000", "part_001"}
    /\ Call("shouldDeploy",
            IF hFile = "part_000" THEN Return(shouldDeploy(hArg))
            ELSE shouldDeploy_001(hArg))

CallGetBranchTimeout ==
    /\ hFile \in {"part_000", "part_001"}
    /\ Call("getBranchTimeout",
            IF hFile = "part_000" THEN Return(getBranchTimeout(hArg))
            ELSE getBranchTimeout_001(hArg))

CallGetBranchBuildRetention ==
    /\ hFile \in {"part_000", "part_001"}
    /\ Call("getBranchBuildRetention",
            IF hFile = "part_000" THEN Return(getBranchBuildRetention(hArg))
            ELSE getBranchBuildRetention_001(hArg))

CallGetBranchSlackChannel ==
    /\ hFile \in {"part_000", "part_001"}
    /\ Call("getBranchSlackChannel",
            IF hFile = "part_000" THEN Return(getBranchSlackChannel(hArg))
            ELSE getBranchSlackChannel_001(hArg))

CallGetBranchType ==
    /\ hFile \in {"part_000", "part_001"}
    /\ Call("getBranchType",
            IF hFile = "part_000" THEN Return(getBranchType(hArg))
            ELSE getBranchType_001(hArg))

CallValidateBranchName ==
    /\ hFile \in {"part_000", "part_001"}
    /\ Call("validateBranchName",
            IF hFile = "part_000" THEN Return(validateBranchName(hArg))
            ELSE validateBranchName_001(hArg))

HelperNext ==
    \/ CallGetBranchAgent
    \/ CallGetBranchEnvironment
    \/ CallShouldDeploy
    \/ CallGetBranchTimeout
    \/ CallGetBranchBuildRetention
    \/ CallGetBranchSlackChannel
    \/ CallGetBranchType
    \/ CallValidateBranchName

HelperSpec == HelperInit /\ [][HelperNext]_vars

----------------------------------------------------------------------------
(* app.js, the demonstration server *)

\* Date.prototype.toISOString of the time t seconds after the epoch, t < 60
toISOString(t) ==
    "1970-01-01T00:00:" \o (IF t < 10 THEN "0" ELSE "") \o NatToString(t) \o ".000Z"

\* the object "response" built at the start of each request
RootBody ==
    [message |-> "Hello from Multi-Branch Pipeline Demo!",
     branch |-> srv.branchName,
     build |-> srv.buildNumber,
     environment |-> srv.environment,
     timestamp |-> toISOString(clock),
     endpoints |-> [health |-> "/health", info |-> "/info"]]

HealthBody ==
    [status |-> "healthy", branch |-> srv.branchName, environment |-> srv.environment]

InfoBody ==
    [application |-> "multi-branch-demo", version |-> "1.0.0",
     branch |-> srv.branchName, build |-> srv.buildNumber,
     environment |-> srv.environment]

\* a handler whose first test has no else: /health is answered twice
Handle_healthFallsThrough(url) ==
    [status |-> 200,
     contentType |-> "application/json",
     bodies |-> (IF url = "/health" THEN <<HealthBody>> ELSE <<>>)
                \o (IF url = "/info" THEN <<InfoBody>> ELSE <<RootBody>>)]

\* the request handler: writeHead, then one res.end chosen by req.url;
\* bodies are the objects given to JSON.stringify, in the order written
Handle(url) ==
    [status |-> 200,
     contentType |-> "application/json",
     bodies |-> IF url = "/health" THEN <<HealthBody>>
                ELSE IF url = "/info" THEN <<InfoBody>>
                ELSE <<RootBody>>]

Methods == {"GET", "POST"}

Urls == {"/", "/health", "/info", "/other", "/health/"}

\* BUILD_NUMBER of the server's process environment
ServerBuildNumbers == {Null} \cup BuildNumbers

ServerInit ==
    /\ BRANCH_NAME \in BranchInputs
    /\ BUILD_NUMBER \in ServerBuildNumbers
    /\ RunIdle
    /\ HelperIdle
    /\ TagIdle /\ ServerIdle /\ RunnerIdle /\ JobIdle
    /\ locale = "en"

\* module load and server.listen: lines 6-8 run once
ServerStart ==
    /\ srv.state = "off"
    /\ srv' = [state |-> "listening",
               branchName |-> branchName_app(BRANCH_NAME),
               buildNumber |-> OrDefault(BUILD_NUMBER, "unknown"),
               environment |-> getBranchEnvironment_app(branchName_app(BRANCH_NAME)),
               served |-> 0]
    /\ UNCHANGED <<clock, response, runner, job>>
    /\ UNCHANGED <<runVars, helperVars, tagVars>>

\* time passes
Tick ==
    /\ clock < MaxClock
    /\ clock' = clock + 1
    /\ UNCHANGED <<srv, response, runner, job>>
    /\ UNCHANGED <<runVars, helperVars, tagVars>>

\* a request handler that classifies again, from the url
Request_reclassifies(method, url) ==
    /\ srv.state = "listening"
    /\ srv.served < MaxRequests
    /\ response' = Some([method |-> method, url |-> url] @@ Handle(url))
    /\ srv' = [srv EXCEPT !.served = @ + 1,
                          !.environment = getBranchEnvironment_app(url)]
    /\ UNCHANGED <<clock, runner, job>>
    /\ UNCHANGED <<runVars, helperVars, tagVars>>

\* one request, handled to its end
Request(method, url) ==
    /\ srv.state = "listening"
    /\ srv.served < MaxRequests
    /\ response' = Some([method |-> method, url |-> url] @@ Handle(url))
    /\ srv' = [srv EXCEPT !.served = @ + 1]
    /\ UNCHANGED <<clock, runner, job>>
    /\ UNCHANGED <<runVars, helperVars, tagVars>>

ServerNext ==
    \/ ServerStart
    \/ Tick
    \/ \E method \in Methods, url \in Urls : Request(method, url)

ServerSpec == ServerInit /\ [][ServerNext]_vars

----------------------------------------------------------------------------
(* app.js, the test script.  The emoji that starts some of its lines is not
   in the character set of the model and is left out of the lines. *)

\* Branch-specific test configurations
testConfig ==
    [main    |-> [testCount |-> 15, environment |-> "production",
                  skipIntegrationTests |-> FALSE],
     develop |-> [testCount |-> 12, environment |-> "staging",
                  skipIntegrationTests |-> FALSE],
     feature |-> [testCount |-> 8, environment |-> "development",
                  skipIntegrationTests |-> TRUE],
     hotfix  |-> [testCount |-> 10, environment |-> "hotfix",
                  skipIntegrationTests |-> FALSE]]

\* a selection that forgets master
SelectConfig_noMaster(branch) ==
    IF branch = "main" THEN "main"
    ELSE IF branch = "develop" THEN "develop"
    ELSE IF StartsWith(branch, "hotfix/") THEN "hotfix"
    ELSE "feature"

\* Determine test configuration: the key of testConfig chosen for the branch
SelectConfig(branch) ==
    IF branch = "main" \/ branch = "master" THEN "main"
    ELSE IF branch = "develop" THEN "develop"
    ELSE IF StartsWith(branch, "hotfix/") THEN "hotfix"
    ELSE "feature"

\* the lines printed before the loop
RunnerHeader(branch, config) ==
    << "Running tests for branch: " \o branch,
       "Test configuration for " \o config.environment \o ":",
       "- Test count: " \o NatToString(config.testCount),
       "- Integration tests: "
           \o (IF ~config.skipIntegrationTests THEN "enabled" ELSE "disabled") >>

\* the line of one simulated test
TestLine(i, n) == "Test " \o NatToString(i) \o "/" \o NatToString(n) \o ": PASSED"

\* the lines of the integration tests
IntegrationLines ==
    << "Running integration tests...",
       "Integration Test 1: API connectivity - PASSED",
       "Integration Test 2: Database connection - PASSED",
       "Integration Test 3: External service - PASSED" >>

TestInit ==
    /\ BRANCH_NAME \in BranchInputs
    /\ BUILD_NUMBER = Null
    /\ RunIdle
    /\ HelperIdle
    /\ TagIdle /\ ServerIdle /\ RunnerIdle /\ JobIdle
    /\ locale = "en"

\* lines 66-101 and let i = 1: read the branch, select the configuration,
\* print the header
RunnerStart ==
    /\ runner.pc = "off"
    /\ LET branch == OrDefault(BRANCH_NAME, "unknown")
           key == SelectConfig(branch)
       IN  runner' = [pc |-> "loop", branchName |-> branch, i |-> 1, config |-> key,
                      out |-> RunnerHeader(branch, testConfig[key])]
    /\ UNCHANGED <<runVars, helperVars, tagVars, serverVars, job>>

\* one iteration of the for loop
RunnerTest ==
    /\ runner.pc = "loop"
    /\ runner.i <= testConfig[runner.config].testCount
    /\ runner' = [runner EXCEPT
                     !.out = Append(@, TestLine(runner.i, testConfig[runner.config].testCount)),
                     !.i = @ + 1]
    /\ UNCHANGED <<runVars, helperVars, tagVars, serverVars, job>>

\* the loop ends; lines 108-115
RunnerFinish ==
    /\ runner.pc = "loop"
    /\ ~(runner.i <= testConfig[runner.config].testCount)
    /\ runner' = [runner EXCEPT
                     !.pc = "done",
                     !.out = @ \o (IF ~testConfig[runner.config].skipIntegrationTests
                                   THEN IntegrationLines ELSE <<>>)
                               \o <<"All tests passed for branch: " \o runner.branchName>>]
    /\ UNCHANGED <<runVars, helperVars, tagVars, serverVars, job>>

TestNext == RunnerStart \/ RunnerTest \/ RunnerFinish

TestSpec == TestInit /\ [][TestNext]_vars

\* the script is one sequential process that the runtime runs to its end
TestFairSpec == TestSpec /\ WF_vars(TestNext)

----------------------------------------------------------------------------
(* The consumers of one branch name: a pipeline run, the server and the test
   script are started with the same BRANCH_NAME *)

ConsumerNext == StartRun \/ ServerStart \/ RunnerStart

ConsumerSpec == Init /\ [][ConsumerNext]_vars

----------------------------------------------------------------------------
(* The job of one branch: Jenkins starts a build when it is triggered, beside
   the builds that are running unless the options disable concurrent builds *)

JobInit ==
    /\ BRANCH_NAME \in BranchInputs
    /\ BUILD_NUMBER = Null
    /\ RunIdle
    /\ HelperIdle
    /\ TagIdle /\ ServerIdle /\ RunnerIdle /\ JobIdle
    /\ locale \in Locales

\* a trigger starts the next build of the job
TriggerBuild ==
    /\ job.started < MaxBuild
    /\ options.disableConcurrentBuilds => job.running = {}
    /\ job' = [started |-> job.started + 1,
               running |-> job.running \cup {job.started + 1}]
    /\ UNCHANGED <<runVars, helperVars, tagVars, serverVars, runner>>

\* a running build comes to its end
FinishBuild(b) ==
    /\ b \in job.running
    /\ job' = [job EXCEPT !.running = @ \ {b}]
    /\ UNCHANGED <<runVars, helperVars, tagVars, serverVars, runner>>

JobNext ==
    \/ TriggerBuild
    \/ \E b \in 1..MaxBuild : FinishBuild(b)

JobSpec == JobInit /\ [][JobNext]_vars

----------------------------------------------------------------------------
(* Calls of createDockerTag: a first call, then a second one that keeps the
   branch name or the build number of the first *)

TagInit ==
    /\ BRANCH_NAME = Null
    /\ BUILD_NUMBER = Null
    /\ RunIdle
    /\ hFile = "part_000"
    /\ hArg \in TagInputs
    /\ hBuild \in TagBuildNumbers
    /\ hPrev = Null
    /\ locale \in Locales
    /\ hFn = ""
    /\ hRet = Return("")
    /\ ServerIdle /\ RunnerIdle /\ JobIdle

CallCreateDockerTag ==
    /\ hFn = ""
    /\ hFn' = "createDockerTag"
    /\ hRet' = Return(createDockerTag(hArg, hBuild))
    /\ UNCHANGED <<hFile, hArg, hBuild, hPrev, locale>>
    /\ UNCHANGED <<runVars, serverVars, runner, job>>

CallCreateDockerTagAgain(branchName, buildNumber) ==
    /\ hFn = "createDockerTag"
    /\ hPrev = Null
    /\ branchName = hArg \/ buildNumber = hBuild
    /\ hPrev' = Some([arg |-> hArg, build |-> hBuild, tag |-> hRet.value])
    /\ hArg' = branchName
    /\ hBuild' = buildNumber
    /\ hRet' = Return(createDockerTag(branchName, buildNumber))
    /\ UNCHANGED <<hFile, hFn, locale>>
    /\ UNCHANGED <<runVars, serverVars, runner, job>>

TagNext ==
    \/ CallCreateDockerTag
    \/ \E b \in TagInputs, n \in TagBuildNumbers : CallCreateDockerTagAgain(b, n)

TagSpec == TagInit /\ [][TagNext]_vars

----------------------------------------------------------------------------
(* Properties of the classification rules, checked on the helper calls     *)

Jenkinsfiles == {"part_000", "part_001"}

\* the six functions that make up the derived record of a branch
ClassifierFns == {"getBranchType", "getBranchEnvironment", "shouldDeploy",
                  "getBranchTimeout", "getBranchBuildRetention",
                  "getBranchSlackChannel"}

\* what a call of fn returns when the branch gets the record rec
RuleValue(fn, rec) ==
    CASE fn = "getBranchType" -> Return(rec.type)
      [] fn = "getBranchEnvironment" -> Return(rec.environment)
      [] fn = "shouldDeploy" -> Return(rec.autoDeploy)
      [] fn = "getBranchTimeout" -> Return(rec.timeout)
      [] fn = "getBranchBuildRetention" -> Return(rec.retention)
      [] fn = "getBranchSlackChannel" -> Return(rec.channel)

ProductionRecord ==
    [type |-> "Production", environment |-> "production", timeout |-> 60,
     retention |-> "50", channel |-> "#production-alerts", autoDeploy |-> "false"]

StagingRecord ==
    [type |-> "Staging", environment |-> "staging", timeout |-> 45,
     retention |-> "20", channel |-> "#staging-updates", autoDeploy |-> "true"]

HotfixRecord ==
    [type |-> "Hotfix", environment |-> "hotfix", timeout |-> 30,
     retention |-> "10", channel |-> "#development", autoDeploy |-> "false"]

ReleaseRecord ==
    [type |-> "Release", environment |-> "development", timeout |-> 30,
     retention |-> "10", channel |-> "#development", autoDeploy |-> "false"]

DefaultRecord ==
    [type |-> "Unknown", environment |-> "development", timeout |-> 30,
     retention |-> "10", channel |-> "#development", autoDeploy |-> "false"]

\* a helper of a Jenkinsfile was called on a name that starts with prefix
CalledOnPrefix(prefix) ==
    /\ hFile \in Jenkinsfiles
    /\ hFn \in ClassifierFns
    /\ hArg # Null
    /\ StartsWith(hArg[1], prefix)

\* a name git accepts for a branch: no empty path segment
RefName(s) ==
    /\ s # ""
    /\ SubSeq(s, 1, 1) # "/"
    /\ SubSeq(s, Len(s), Len(s)) # "/"
    /\ \A i \in 1..(Len(s) - 1) : SubSeq(s, i, i + 1) # "//"

\* C1: every branch name "feature/<x>" passes the gate of the Auto Deploy
\* stage, except "feature/experimental", which never does and whose runs
\* never enter the Auto Deploy steps.
C1_FeatureAutoDeployEligible ==
    (pc \notin {"start", "idle"} /\ BRANCH_NAME # Null
        /\ StartsWith(BRANCH_NAME[1], "feature/") /\ RefName(BRANCH_NAME[1]))
    => /\ AutoDeployWhen <=> (BRANCH_NAME # Some("feature/experimental"))
       /\ BRANCH_NAME = Some("feature/experimental") => "Auto Deploy" \notin executed

\* C2 as stated: "main" and "master" get the production record from every
\* classifier function, and no other argument gets any of its values, the
\* auto-deploy value 'false' included.
C2_Original ==
    (hFile \in Jenkinsfiles /\ hFn \in ClassifierFns /\ hArg # Null)
    => IF hArg \in {Some("main"), Some("master")}
       THEN hRet = RuleValue(hFn, ProductionRecord)
       ELSE hRet # RuleValue(hFn, ProductionRecord)

\* C2: "main" and "master" get the production record from every classifier
\* function (Production, production, 60, 50, #production-alerts, no
\* auto-deploy), and no other argument gets a production type, environment,
\* timeout, retention or channel; the auto-deploy value 'false' is shared
\* with other names, the hotfix/ names among them.
C2_MainMasterProduction ==
    (hFile \in Jenkinsfiles /\ hFn \in ClassifierFns)
    => /\ IF hArg \in {Some("main"), Some("master")}
          THEN hRet = RuleValue(hFn, ProductionRecord)
          ELSE hFn # "shouldDeploy" => hRet # RuleValue(hFn, ProductionRecord)
       /\ (hFn = "shouldDeploy" /\ CalledOnPrefix("hotfix/"))
             => hRet = RuleValue(hFn, ProductionRecord)

C2_Witness ==
    /\ hFile = "part_000"
    /\ hArg = Some("master")
    /\ hFn = "getBranchSlackChannel"
    /\ hRet = Return("#production-alerts")

\* C3: "develop" gets the staging record (Staging, staging, 45, 20,
\* #staging-updates, auto-deploy) and no other argument gets a staging type,
\* environment, timeout, retention or channel.
C3_DevelopStaging ==
    (hFile \in Jenkinsfiles /\ hFn \in ClassifierFns)
    => IF hArg = Some("develop")
       THEN hRet = RuleValue(hFn, StagingRecord)
       ELSE hFn # "shouldDeploy" => hRet # RuleValue(hFn, StagingRecord)

C3_Witness ==
    /\ hFile = "part_000"
    /\ hArg = Some("develop")
    /\ hFn = "getBranchTimeout"
    /\ hRet = Return(45)

\* C4: every name that starts with "hotfix/" gets the hotfix record (Hotfix,
\* hotfix, 30, 10, #development, no auto-deploy).
C4_HotfixRecord ==
    CalledOnPrefix("hotfix/") => hRet = RuleValue(hFn, HotfixRecord)

C4_Witness ==
    /\ hFile = "part_000"
    /\ hArg = Some("hotfix/x")
    /\ hFn = "getBranchEnvironment"
    /\ hRet = Return("hotfix")

\* C5: every name that starts with "release/" is of type Release and gets the
\* default constants (development, 30, 10, #development, no auto-deploy).
C5_ReleaseRecord ==
    CalledOnPrefix("release/") => hRet = RuleValue(hFn, ReleaseRecord)

C5_Witness ==
    /\ hFile = "part_000"
    /\ hArg = Some("release/x")
    /\ hFn = "getBranchType"
    /\ hRet = Return("Release")

\* C6: an absent or empty branch name classifies as "unknown" does, with the
\* default record (Unknown, development, 30, 10, #development, no
\* auto-deploy), in the guarded Jenkinsfile and in app.js.
C6_AbsentIsUnknown ==
    (hFile \in {"part_000", "app.js"} /\ hFn \in ClassifierFns
        /\ hArg \in {Null, Some(""), Some("unknown")})
    => hRet = RuleValue(hFn, DefaultRecord)

\* C7: no call of a classifier function throws, whatever the argument (any
\* string, the empty string, an absent value).
C7_NoClassifierThrows ==
    hFn # "" => ~hRet.threw

\* the names the naming convention accepts
WellFormed(name) ==
    \/ name \in {"main", "master", "develop"}
    \/ StartsWith(name, "feature/")
    \/ StartsWith(name, "hotfix/")
    \/ StartsWith(name, "release/")

\* C9: validateBranchName echoes the naming-convention warning for exactly
\* the names that are not well-formed, so for every name of type Unknown.
C9_WarningIffMalformed ==
    (hFile = "part_000" /\ hFn = "validateBranchName")
    => /\ (NamingWarning(Elvis(hArg, "unknown")) \in hRet.value)
              <=> ~WellFormed(Elvis(hArg, "unknown"))
       /\ getBranchType(hArg) = "Unknown"
              => NamingWarning(Elvis(hArg, "unknown")) \in hRet.value

\* C10: a run whose branch name validateBranchName warned about is not failed
\* by Environment Setup: the stage completes and the run moves on to the
\* stages after it with no failure, or the stage is still in the sh of its
\* debug branch, from where it completes unless the run is interrupted; and
\* the run has the default classification.
C10_MalformedNotRejected ==
    /\ [](NamingWarning(Elvis(BRANCH_NAME, "unknown")) \in log
          => /\ \/ "Environment Setup" \in completed /\ pc # "Environment Setup"
                \/ /\ params.ENABLE_DEBUG_MODE
                   /\ "Environment Setup" \in executed
                   /\ \/ pc = "Environment Setup" /\ result = Null
                      \/ result = Some("ABORTED")
             /\ pc # "start"
             /\ pc = "Checkout & Validate" => result = Null
             /\ setup = [branchTimeout |-> 30, buildRetention |-> "10",
                         branchType |-> "Unknown"]
             /\ env.TARGET_ENVIRONMENT = Some("development")
             /\ env.DEPLOY_ENABLED = Some("false")
             /\ env.SLACK_CHANNEL = Some("#development"))
    /\ [][(NamingWarning(Elvis(BRANCH_NAME, "unknown")) \in log
             /\ pc = "Environment Setup")
          => \/ pc' = "Checkout & Validate" /\ "Environment Setup" \in completed'
             \/ result' = Some("ABORTED")]_vars

C10_Witness ==
    /\ NamingWarning("xx") \in log
    /\ BRANCH_NAME = Some("xx")
    /\ "Build Application" \in completed
    /\ setup.branchType = "Unknown"

----------------------------------------------------------------------------
(* createDockerTag: C11, C12, C13 *)

\* a createDockerTag call has returned
TagReturned == hFn = "createDockerTag"

\* the characters a sanitized tag may contain: [a-z0-9.-]
CleanChars == CharsOf(LowerCase) \cup CharsOf(Digits) \cup {".", "-"}

\* d is the lowercase form of the uppercase letter c
LowerOf(c, d) ==
    \E k \in 1..Len(UpperCase) : SubSeq(UpperCase, k, k) = c /\ SubSeq(LowerCase, k, k) = d

\* d is what the character c of a branch name becomes in the tag
CleanedAs(c, d) ==
    IF c \in CleanChars THEN d = c
    ELSE IF c \in CharsOf(UpperCase) THEN LowerOf(c, d)
    ELSE d = "-"

\* tag is name, cleaned character by character, then "-" and run
TagOf(name, run, tag) ==
    /\ Len(tag) = Len(name) + 1 + Len(run)
    /\ \A i \in 1..Len(name) : CleanedAs(SubSeq(name, i, i), SubSeq(tag, i, i))
    /\ SubSeq(tag, Len(name) + 1, Len(name) + 1) = "-"
    /\ SubSeq(tag, Len(name) + 2, Len(tag)) = run

\* C11: the tag of every non-empty branch name is the name cleaned one-for-one
\* (same length, allowed characters changed only in case, every other
\* character a hyphen), then a hyphen and the run number, so that
\* ("feature/My_Branch!", 42) gives "feature-my-branch--42"; an absent or
\* empty name is tagged as the name "unknown".  The lower-casing of the
\* default locale breaks it: under Turkish "I" becomes the dotless i, which
\* is not the lowercase letter of the allowed set (see C12).
C11_TagOfName ==
    TagReturned =>
        /\ (hArg # Null /\ hArg # Some("")) => TagOf(hArg[1], hBuild[1], hRet.value)
        /\ (hArg = Null \/ hArg = Some("")) => hRet.value = "unknown-" \o hBuild[1]
        /\ (hArg = Some("feature/My_Branch!") /\ hBuild = Some("42"))
               => hRet.value = "feature-my-branch--42"

\* C12: for every branch name, empty and absent included, and every run
\* number the tag is a non-empty string of characters in [a-z0-9.-].
\* toLowerCase() without a locale breaks it: under a Turkish default locale
\* the tag of a name with "I" holds the dotless i.
C12_TagWellFormed ==
    TagReturned => (hRet.value # "" /\ CharsOf(hRet.value) \subseteq CleanChars)

\* c and d are the same character, differ only in case, or are both disallowed
SimilarChar(c, d) ==
    \/ c = d
    \/ LowerOf(c, d) \/ LowerOf(d, c)
    \/ (c \notin TagChars /\ d \notin TagChars)

\* two names that differ only in case or in which disallowed character stands
\* at a position
SimilarName(a, b) ==
    /\ Len(a) = Len(b)
    /\ \A i \in 1..Len(a) : SimilarChar(SubSeq(a, i, i), SubSeq(b, i, i))

\* C13: two branch names that differ only in letter case or in which
\* disallowed character stands at a position get the same tag for the same
\* run number ("feature/A" and "feature_A" both give "feature-a-<run>"), and
\* two tags of the same branch differ iff their run numbers differ.  Under a
\* Turkish default locale names that differ in the case of an "I" get
\* different tags (see C12).
C13_NotInjective ==
    (TagReturned /\ hPrev # Null) =>
        /\ (hArg # Null /\ hPrev[1].arg # Null /\ hBuild = hPrev[1].build
              /\ SimilarName(hArg[1], hPrev[1].arg[1]))
               => hRet.value = hPrev[1].tag
        /\ (hArg = hPrev[1].arg)
               => ((hRet.value # hPrev[1].tag) <=> (hBuild # hPrev[1].build))
        /\ (hArg = Some("feature_A") /\ hPrev[1].arg = Some("feature/A")
              /\ hBuild = hPrev[1].build)
               => hRet.value = "feature-a-" \o hBuild[1]

----------------------------------------------------------------------------
(* The demonstration server: C14, C15 *)

\* the keys of a JSON object
Keys(body) == DOMAIN body

StartupValues ==
    [branch |-> branchName_app(BRANCH_NAME),
     build |-> OrDefault(BUILD_NUMBER, "unknown"),
     environment |-> getBranchEnvironment_app(branchName_app(BRANCH_NAME))]

\* the fields v of body that are among branch, build, environment
Reported(body) ==
    [k \in Keys(body) \cap {"branch", "build", "environment"} |-> body[k]]

----------------------------------------------------------------------------
(* The test script: C16 *)

\* the number of tests the script runs for a branch
ExpectedTestCount(branch) ==
    IF branch \in {"main", "master"} THEN 15
    ELSE IF branch = "develop" THEN 12
    ELSE IF StartsWith(branch, "hotfix/") THEN 10
    ELSE 8

\* the lines "Test i/n: PASSED" for i = 1..n
ExpectedTestLines(n) ==
    [i \in 1..n |-> "Test " \o NatToString(i) \o "/" \o NatToString(n) \o ": PASSED"]

\* the lines after the header
PrintedTests == SubSeq(runner.out, 5, Len(runner.out))

----------------------------------------------------------------------------
(* The consumers: C17 *)

\* C17: for every (present, non-empty) branch name the environment the server reports, the
\* environment of the configuration the test script selects and the
\* TARGET_ENVIRONMENT of the pipeline run are equal.
C17_SameEnvironment ==
    (BRANCH_NAME # Null /\ RefName(Interpolate(BRANCH_NAME))
        /\ pc # "start" /\ srv.state = "listening" /\ runner.pc # "off") =>
        /\ env.TARGET_ENVIRONMENT = Some(srv.environment)
        /\ testConfig[runner.config].environment = srv.environment

----------------------------------------------------------------------------
(* Options of the pipeline: C18, C19 *)

\* C18: the timeout and the build retention the options apply to a run are
\* the values getBranchTimeout and getBranchBuildRetention give for the
\* branch of the run, which Environment Setup computes and echoes.
C18_OptionsFollowBranch ==
    (setup.branchTimeout # 0) =>
        /\ options.timeout = setup.branchTimeout
        /\ options.numToKeepStr = setup.buildRetention

\* C19: no two builds of main, or of master, are running at the same time.
C19_NoConcurrentProductionBuilds ==
    (BRANCH_NAME = Some("main") \/ BRANCH_NAME = Some("master"))
        => Cardinality(job.running) <= 1

----------------------------------------------------------------------------
(* Production Deploy: C20 *)

\* C20: the steps of Production Deploy execute in a run only when the branch
\* is main or master, DEPLOY_TO_PRODUCTION is true and the input was approved
\* before in that run; without approval, or on another branch, they never do.
\* The when of the stage matches its patterns ignoring case, so a run on
\* "MAIN" or "Master" breaks it.
C20_ProductionDeployGated ==
    /\ [][("Production Deploy" \notin executed /\ "Production Deploy" \in executed') =>
            /\ inputApproved = Some("approved")
            /\ BRANCH_NAME \in {Some("main"), Some("master")}
            /\ params.DEPLOY_TO_PRODUCTION]_vars
    /\ []("Production Deploy" \in executed =>
            /\ inputApproved = Some("approved")
            /\ BRANCH_NAME \in {Some("main"), Some("master")}
            /\ params.DEPLOY_TO_PRODUCTION)
    /\ []((inputApproved = Some("aborted")
            \/ BRANCH_NAME \notin {Some("main"), Some("master")})
           => "Production Deploy" \notin executed)

----------------------------------------------------------------------------
(* Test Suite: C21, C22 *)

ProductionBranch == BRANCH_NAME \in {Some("main"), Some("master")}

\* the step on which the when of a child of Test Suite is decided: the child
\* was not started, and its steps are entered or it leaves the stage skipped
\* (a run aborted in the stage decides nothing)
Decides(child) ==
    /\ child \in pending
    /\ child \notin executed
    /\ \/ child \in executed'
       \/ (child \notin pending' /\ result' # Some("ABORTED"))

\* BRANCH_NAME is unset or a name git accepts for a branch
GitBranch == BRANCH_NAME = Null \/ RefName(Interpolate(BRANCH_NAME))

\* C21: the steps of Performance Tests execute on main and master only.  The
\* when of the stage also lets them run on any branch with
\* RUN_PERFORMANCE_TESTS set, its default.
C21_Original ==
    (GitBranch /\ "Performance Tests" \in executed) => ProductionBranch

\* a name "feature/<x>" with one segment <x>, which the pattern feature/*
\* matches
OneSegmentFeature ==
    /\ BRANCH_NAME # Null
    /\ StartsWith(Interpolate(BRANCH_NAME), "feature/")
    /\ Len(Interpolate(BRANCH_NAME)) > Len("feature/")
    /\ \A i \in (Len("feature/") + 1)..Len(Interpolate(BRANCH_NAME)) :
           SubSeq(Interpolate(BRANCH_NAME), i, i) # "/"

\* C22: when the run decides the children of Test Suite, Unit Tests execute
\* always, and Integration Tests are skipped iff the branch is a feature/<x>
\* name and SKIP_INTEGRATION_TESTS is true; on a branch that does not begin
\* with "feature/" they execute even with the parameter set.  A run that was
\* not aborted in Test Suite has executed Unit Tests.  The when of
\* Integration Tests matches feature/* ignoring case, so a run on
\* "Feature/x", a name of no rule, breaks it.
C22_TestSuiteGates ==
    /\ [][Decides("Unit Tests") => "Unit Tests" \in executed']_vars
    /\ [][(GitBranch /\ Decides("Integration Tests")) =>
            /\ ("Integration Tests" \notin executed')
                  <=> (OneSegmentFeature /\ params.SKIP_INTEGRATION_TESTS)
            /\ (BRANCH_NAME = Null \/ ~StartsWith(Interpolate(BRANCH_NAME), "feature/"))
                  => "Integration Tests" \in executed']_vars
    /\ []((pc \notin {"start", "Environment Setup", "Checkout & Validate",
                      "Build Application", "Test Suite"}
             /\ "Build Application" \in completed
             /\ ("Test Suite" \in completed \/ result # Some("ABORTED")))
            => "Unit Tests" \in executed)

----------------------------------------------------------------------------
(* Auto Deploy gate: C23 *)

\* C23: once a run on a git branch has decided Auto Deploy, its steps were
\* entered iff shouldDeploy(branch) is 'true' and the branch is not
\* "feature/experimental".
C23_GateAgreesWithClassifier ==
    (GitBranch /\ pc = "Deploy" /\ "Auto Deploy" \notin pending) =>
        ("Auto Deploy" \in executed
            <=> (shouldDeploy(BRANCH_NAME) = "true"
                   /\ BRANCH_NAME # Some("feature/experimental")))

----------------------------------------------------------------------------
(* Environment of a run: C24 *)

\* C24: after the start of a run no step changes TARGET_ENVIRONMENT,
\* DEPLOY_ENABLED or SLACK_CHANNEL; DOCKER_TAG is written only by the steps of
\* Docker Build, once, and never changed afterwards.
C24_EnvironmentFrame ==
    /\ [][pc # "start" =>
            /\ env'.TARGET_ENVIRONMENT = env.TARGET_ENVIRONMENT
            /\ env'.DEPLOY_ENABLED = env.DEPLOY_ENABLED
            /\ env'.SLACK_CHANNEL = env.SLACK_CHANNEL]_vars
    /\ [][env'.DOCKER_TAG # env.DOCKER_TAG =>
            /\ pc = "Docker Build"
            /\ env.DOCKER_TAG = Null
            /\ "Docker Build" \in executed']_vars
    /\ [](pc # "start" =>
            /\ env.TARGET_ENVIRONMENT = Some(getBranchEnvironment(BRANCH_NAME))
            /\ env.DEPLOY_ENABLED = Some(shouldDeploy(BRANCH_NAME))
            /\ env.SLACK_CHANNEL = Some(getBranchSlackChannel(BRANCH_NAME)))

C24_Witness ==
    /\ pc = "done"
    /\ BRANCH_NAME = Some("develop")
    /\ env.TARGET_ENVIRONMENT = Some("staging")
    /\ env.DEPLOY_ENABLED = Some("true")
    /\ env.SLACK_CHANNEL = Some("#staging-updates")
    /\ env.DOCKER_TAG = Some("develop-2")
    /\ "Auto Deploy" \in executed

----------------------------------------------------------------------------
(* Disjoint rules: C25 *)

\* the five specific rules
Rules == {"production", "staging", "feature", "hotfix", "release"}

RuleMatches(rule, name) ==
    CASE rule = "production" -> name = "main" \/ name = "master"
      [] rule = "staging" -> name = "develop"
      [] rule = "feature" -> StartsWith(name, "feature/")
      [] rule = "hotfix" -> StartsWith(name, "hotfix/")
      [] rule = "release" -> StartsWith(name, "release/")

FeatureRecord ==
    [type |-> "Feature", environment |-> "development", timeout |-> 30,
     retention |-> "10", channel |-> "#development", autoDeploy |-> "true"]

\* the record of a rule; "default" is the rule for anything else
RuleRecord(rule) ==
    CASE rule = "production" -> ProductionRecord
      [] rule = "staging" -> StagingRecord
      [] rule = "feature" -> FeatureRecord
      [] rule = "hotfix" -> HotfixRecord
      [] rule = "release" -> ReleaseRecord
      [] OTHER -> DefaultRecord

\* the order the rules are stated in
StatedOrder == <<"production", "staging", "feature", "hotfix", "release">>

\* the orders the five rules can be evaluated in
RuleOrders ==
    {[i \in DOMAIN StatedOrder |-> p[StatedOrder[i]]] : p \in Permutations(Rules)}

\* the rule first-match-wins evaluation selects under an order
FirstMatch(order, name) ==
    LET hits == {i \in DOMAIN order : RuleMatches(order[i], name)}
    IN  IF hits = {} THEN "default"
        ELSE order[CHOOSE i \in hits : \A j \in hits : i <= j]

\* C25: at most one of the five specific rules matches a branch name, so
\* first-match-wins selects the same rule under every evaluation order, and
\* every per-attribute function returns the value of that rule's record.
C25_RulesDisjoint ==
    (hFile \in Jenkinsfiles /\ hFn \in ClassifierFns
        /\ (hArg # Null \/ hFile = "part_000")) =>
        LET name == Elvis(hArg, "unknown")
        IN  /\ Cardinality({rule \in Rules : RuleMatches(rule, name)}) <= 1
            /\ \A order \in RuleOrders :
                   FirstMatch(order, name) = FirstMatch(StatedOrder, name)
            /\ hRet = RuleValue(hFn, RuleRecord(FirstMatch(StatedOrder, name)))

C25_Witness ==
    /\ hFile = "part_000"
    /\ hArg = Some("release/x")
    /\ hFn = "getBranchBuildRetention"
    /\ hRet = Return("10")
    /\ FirstMatch(<<"feature", "hotfix", "release", "staging", "production">>,
                  "release/x") = "release"

----------------------------------------------------------------------------
(* Deploy after build: C26, C27 *)

\* C26: when the steps of Auto Deploy are entered, and ever after, Docker
\* Build has executed in the run and DOCKER_TAG is
\* createDockerTag(branch, build number).
C26_AutoDeployAfterDockerBuild ==
    /\ [][("Auto Deploy" \notin executed /\ "Auto Deploy" \in executed') =>
            /\ "Docker Build" \in completed
            /\ env.DOCKER_TAG = Some(createDockerTag(BRANCH_NAME, BUILD_NUMBER))]_vars
    /\ []("Auto Deploy" \in executed =>
            /\ "Docker Build" \in executed
            /\ env.DOCKER_TAG # Null
            /\ env.DOCKER_TAG = Some(createDockerTag(BRANCH_NAME, BUILD_NUMBER)))

C26_Witness ==
    /\ "Auto Deploy" \in executed
    /\ "Docker Build" \in completed
    /\ BRANCH_NAME = Some("develop")
    /\ BUILD_NUMBER = Some("1")
    /\ env.DOCKER_TAG = Some("develop-1")

\* the position of a stage, or of the stage of a parallel child, in the
\* declared order
Rank(name) ==
    CHOOSE k \in 1..Len(StageOrder) :
        StageOrder[k] = name \/ name \in Children(StageOrder[k])

DeploySteps == {"Auto Deploy", "Production Deploy"}

BeforeDeploy == {"Environment Setup", "Checkout & Validate", "Build Application",
                 "Test Suite", "Quality Gates"}

\* C27: steps are entered in the declared order of their stages; a deploy
\* step is entered only when no earlier stage has failed and no test has
\* (the result of the build is still unset), the stages before Docker Build
\* have completed, and every executed child of Test Suite and of Quality
\* Gates, and Docker Build if executed, has completed.  The junit step of
\* Unit Tests breaks it: it marks the build UNSTABLE for failed tests and the
\* run goes on to deploy.
C27_StageOrder ==
    /\ [][\A s \in executed' \ executed : \A t \in executed : Rank(t) <= Rank(s)]_vars
    /\ [][(\E d \in DeploySteps : d \notin executed /\ d \in executed') =>
            /\ result = Null
            /\ BeforeDeploy \subseteq completed
            /\ \A c \in executed \ DeploySteps : c \in completed]_vars
    /\ []((result = Some("FAILURE") /\ pc # "done" /\ ~(BeforeDeploy \subseteq completed))
            => executed \cap DeploySteps = {})

----------------------------------------------------------------------------
(* Names given to Docker: C28 *)

\* C28: in every run the build tag and the <branch>-latest tag of an executed
\* Docker Build, and the container name of an executed Auto Deploy, hold
\* only characters in [a-z0-9.-].
C28_DockerNamesSanitized ==
    /\ (GitBranch /\ "Docker Build" \in executed) =>
          /\ CharsOf(createDockerTag(BRANCH_NAME, BUILD_NUMBER)) \subseteq CleanChars
          /\ CharsOf(LatestTag) \subseteq CleanChars
    /\ (GitBranch /\ "Auto Deploy" \in executed) =>
          CharsOf(ContainerName) \subseteq CleanChars

====
